---- MODULE Spec2Model ----
(***************************************************************************)
(* Model of agri_drone_system.py: the rule-based FusionEngine and the      *)
(* AgriDroneAnalyzer pipeline that feeds it.                               *)
(*                                                                         *)
(* Numbers.  A vegetation-index pixel v stands for v/10, a confidence c    *)
(* for c/1000; means and the 0.3 threshold are exact rationals.            *)
(* Text.  An issue or recommendation is a sequence of tokens: a literal    *)
(* fragment of the f-string is one token, a formatted number is one token  *)
(* per character.                                                          *)
(* Objects.  Python lists that the claims distinguish by identity live in  *)
(* heap, addressed by list ids.                                            *)
(***************************************************************************)
EXTENDS Integers, Sequences, FiniteSets, TLC

VARIABLES
    pc,          \* position inside FusionEngine.fuse_results
    args,        \* the arguments of the running / last fuse_results call
    avg_vi,      \* local avg_vi
    counts,      \* locals weed_count, pest_count
    diagnosis,   \* local diagnosis dict; 'issues' and 'recommendations' are list ids
    heap,        \* list id -> contents of that Python list
    rules,       \* FusionEngine.self.rules: key -> list id
    memo,        \* the earlier calls' (args, diagnosis) the caller still holds
    apc,         \* position inside AgriDroneAnalyzer (__init__ / analyze)
    available,   \* WeedPestDetector.self.available
    an           \* locals of AgriDroneAnalyzer.analyze

vars == <<pc, args, avg_vi, counts, diagnosis, heap, rules, memo, apc, available, an>>

fusionVars == <<pc, args, avg_vi, counts, diagnosis, heap, rules, memo>>
pipelineVars == <<apc, available, an>>

----------------------------------------------------------------------------
(* Bounds *)

MaxPixels == 2
MaxDetections == 3

PixelValues == {2, 4}
ConfidenceValues == {900, 905}
DiseaseNames == {"Leaf Blight", "healthy"}
CropTypes == {"Tomato"}
HealthStatuses == {"Healthy", "Diseased", "Stressed", "Unknown"}
Categories == {"weed", "pest", "none"}

\* the null reference: no list
NullId == 0

----------------------------------------------------------------------------
(* Sequences and text *)

SeqsUpTo(S, n) == UNION {[1..k -> S] : k \in 0..n}

IsPrefix(s, t) == Len(s) <= Len(t) /\ SubSeq(t, 1, Len(s)) = s

Contains(text, sub) ==
    \E i \in 0..(Len(text) - Len(sub)) : SubSeq(text, i + 1, i + Len(sub)) = sub

RECURSIVE SumSeq(_)
SumSeq(s) == IF s = <<>> THEN 0 ELSE Head(s) + SumSeq(Tail(s))

DigitChars == <<"0", "1", "2", "3", "4", "5", "6", "7", "8", "9">>

Digit(d) == DigitChars[d + 1]

\* str(n) of a non-negative int, one token per character
RECURSIVE Decimal(_)
Decimal(n) == IF n < 10 THEN <<Digit(n)>> ELSE Decimal(n \div 10) \o <<Digit(n % 10)>>

\* the low `width` decimal digits of n, zero padded
RECURSIVE Padded(_, _)
Padded(n, width) ==
    IF width = 0 THEN <<>> ELSE Padded(n \div 10, width - 1) \o <<Digit(n % 10)>>

\* format(c/1000, '.<prec>%') for prec >= 1: the value times 100 with prec
\* digits after the point, then '%'.  c/1000 * 100 has one decimal digit,
\* so no rounding arises.
FormatPercent(c, prec) ==
    LET scaled == c * (10 ^ (prec - 1))
    IN  Decimal(scaled \div (10 ^ prec)) \o <<".">>
            \o Padded(scaled % (10 ^ prec), prec) \o <<"%">>

ConfidencePrecision == 2

FormatConfidenceOneDigit(c) == FormatPercent(c, 1)

\* {health_confidence:.2%}
FormatConfidence(c) == FormatPercent(c, ConfidencePrecision)

----------------------------------------------------------------------------
(* Vegetation index *)

\* np.mean(vegetation_index): a rational, or nan for an empty array
Mean(pixels) ==
    IF Len(pixels) = 0 THEN [nan |-> TRUE, num |-> 0, den |-> 1]
    ELSE [nan |-> FALSE, num |-> SumSeq(pixels), den |-> 10 * Len(pixels)]

Threshold == [num |-> 3, den |-> 10]

LessOrEqualThreshold(avg) ==
    ~avg.nan /\ avg.num * Threshold.den <= Threshold.num * avg.den

\* avg_vi < 0.3 (False for nan)
LowVegetation(avg) ==
    ~avg.nan /\ avg.num * Threshold.den < Threshold.num * avg.den

----------------------------------------------------------------------------
(* The texts fuse_results appends *)

LowVIIssue == <<"Low vegetation index detected (stress/disease likely)">>
LowVIRec == <<"Inspect for disease, water stress, or nutrient deficiency">>

DiseaseIssue(name, c) ==
    <<"Disease detected: ", name, " (confidence: ">> \o FormatConfidence(c) \o <<")">>
DiseaseRec(name) == <<"Apply appropriate treatment for ", name>>

StressIssue(c) == <<"Crop stress detected (confidence: ">> \o FormatConfidence(c) \o <<")">>
StressRec == <<"Check irrigation and nutrient levels">>

WeedIssue(n) == Decimal(n) \o <<" potential weed(s) detected">>
WeedRec == <<"Consider targeted herbicide application or manual removal">>

PestIssue(n) == Decimal(n) \o <<" potential pest(s) detected">>
PestRec == <<"Monitor pest population and apply IPM strategies">>

CriticalIssue == <<"CRITICAL: Multiple stress factors detected">>
CriticalRec == <<"Immediate intervention required">>

DefaultRec == <<"Continue regular monitoring">>

----------------------------------------------------------------------------
(* Lists on the heap *)

RuleKeys == {"critical", "warning", "info"}

\* the engine's three lists, and two for each of a kept and a running diagnosis
ListIds == 1..(Cardinality(RuleKeys) + 2 + 2)

\* the list ids a diagnosis dict refers to
ListsOf(d) == {d.issues, d.recommendations} \ {NullId}

\* a fresh list object: the lowest id not in use
NewList(h) == CHOOSE i \in ListIds \ DOMAIN h : \A j \in ListIds \ DOMAIN h : i <= j

\* list.append(x) on the list with id i
Append_(h, i, x) == [h EXCEPT ![i] = Append(@, x)]

Issues == IF diagnosis.issues = NullId THEN <<>> ELSE heap[diagnosis.issues]
Recommendations ==
    IF diagnosis.recommendations = NullId THEN <<>> ELSE heap[diagnosis.recommendations]

SelfRules == [k \in RuleKeys |-> heap[rules[k]]]

----------------------------------------------------------------------------
(* Inputs *)

\* a detection dict; only 'category' is read by fuse_results
Detection(label, category) == [label |-> label, category |-> category]

\* result.names of the weights file the detector loads: three names of the
\* COCO-trained yolov8n.pt, and a name with a keyword of either kind, as
\* another weights file under that path may carry
PottedPlant == <<"p", "o", "t", "t", "e", "d", " ", "p", "l", "a", "n", "t">>
Bird == <<"b", "i", "r", "d">>
Person == <<"p", "e", "r", "s", "o", "n">>
BeePlant == <<"B", "e", "e", " ", "p", "l", "a", "n", "t">>
YoloNames == {PottedPlant, Bird, Person, BeePlant}

LabelOfCategory == [c \in Categories |->
    CASE c = "weed" -> PottedPlant [] c = "pest" -> Bird [] OTHER -> Person]

Detections == {Detection(LabelOfCategory[c], c) : c \in Categories}

FuseArgs(vi, status, conf, dets, disease, crop) ==
    [vegetation_index |-> vi, health_status |-> status, health_confidence |-> conf,
     detections |-> dets, disease_name |-> disease, crop_type |-> crop]

\* every argument tuple a direct caller of fuse_results may pass
AllArgs ==
    {FuseArgs(vi, st, c, ds, dn, ct) :
        vi \in SeqsUpTo(PixelValues, MaxPixels), st \in HealthStatuses,
        c \in ConfidenceValues, ds \in SeqsUpTo(Detections, MaxDetections),
        dn \in DiseaseNames, ct \in CropTypes}

\* the argument tuples of a caller that keeps earlier results and compares them
RepeatArgs ==
    {FuseArgs(<<v>>, st, 900, ds, "Leaf Blight", "Tomato") :
        v \in PixelValues, st \in HealthStatuses,
        ds \in {<<>>, <<Detection(PottedPlant, "weed")>>,
                <<Detection(Bird, "pest"), Detection(PottedPlant, "weed")>>}}

\* locals not bound yet
NoArgs == FuseArgs(<<>>, "Unknown", 0, <<>>, "Unknown", "Unknown")
NoDiagnosis ==
    [crop_type |-> "Unknown", disease_name |-> "Unknown", overall_health |-> "Unknown",
     confidence |-> 0, issues |-> NullId, recommendations |-> NullId]
NoAvg == [nan |-> TRUE, num |-> 0, den |-> 1]
NoCounts == [weed |-> 0, pest |-> 0]

----------------------------------------------------------------------------
(* FusionEngine *)

\* FusionEngine.__init__: self.rules = {'critical': [], 'warning': [], 'info': []}
InitRules == [k \in RuleKeys |-> CASE k = "critical" -> 1 [] k = "warning" -> 2 [] OTHER -> 3]
InitHeap == [i \in {InitRules[k] : k \in RuleKeys} |-> <<>>]

\* lists still referenced once fuse_results is entered again: the engine's
\* and those of the results the caller holds
Reachable == {rules[k] : k \in RuleKeys} \cup UNION {ListsOf(m.diagnosis) : m \in memo}

ReusedRuleList(h) == rules["info"]

\* the [] literals of the diagnosis dict: each evaluation is a new list
FreshList(h) == NewList(h)

\* the heap once list i exists: a new list is empty
Bind(h, i) == [j \in DOMAIN h \cup {i} |-> IF j \in DOMAIN h THEN h[j] ELSE <<>>]

\* fuse_results entry: bind the arguments, build the diagnosis dict
Enter(a) ==
    /\ pc \in {"idle", "done"}
    /\ LET h0 == [i \in Reachable |-> heap[i]]
           i1 == FreshList(h0)
           h1 == Bind(h0, i1)
           i2 == FreshList(h1)
           h2 == Bind(h1, i2)
       IN  /\ heap' = h2
           /\ diagnosis' = [crop_type |-> a.crop_type, disease_name |-> a.disease_name,
                            overall_health |-> "Unknown", confidence |-> 0,
                            issues |-> i1, recommendations |-> i2]
    /\ args' = a
    /\ avg_vi' = NoAvg
    /\ counts' = NoCounts
    /\ pc' = "rule1"
    /\ UNCHANGED <<rules, memo>>

\* both appends of one rule
AppendBoth(h, d, issue, rec) == Append_(Append_(h, d.issues, issue), d.recommendations, rec)

\* Rule 1: vegetation index analysis
Rule1 ==
    /\ pc = "rule1"
    /\ avg_vi' = Mean(args.vegetation_index)
    /\ heap' = IF LowVegetation(avg_vi')
               THEN AppendBoth(heap, diagnosis, LowVIIssue, LowVIRec) ELSE heap
    /\ pc' = "rule2"
    /\ UNCHANGED <<args, counts, diagnosis, rules, memo>>
    /\ UNCHANGED pipelineVars

Rule2KeepsDefaults ==
    /\ pc = "rule2"
    /\ diagnosis' = diagnosis
    /\ heap' = IF args.health_status = "Diseased"
               THEN AppendBoth(heap, diagnosis,
                               DiseaseIssue(args.disease_name, args.health_confidence),
                               DiseaseRec(args.disease_name))
               ELSE IF args.health_status = "Stressed"
               THEN AppendBoth(heap, diagnosis,
                               StressIssue(args.health_confidence), StressRec)
               ELSE heap
    /\ pc' = "rule3_weed"
    /\ UNCHANGED <<args, avg_vi, counts, rules, memo>>
    /\ UNCHANGED pipelineVars

\* Rule 2: health classification
Rule2 ==
    /\ pc = "rule2"
    /\ diagnosis' = [diagnosis EXCEPT !.overall_health = args.health_status,
                                      !.confidence = args.health_confidence]
    /\ heap' = IF args.health_status = "Diseased"
               THEN AppendBoth(heap, diagnosis,
                               DiseaseIssue(args.disease_name, args.health_confidence),
                               DiseaseRec(args.disease_name))
               ELSE IF args.health_status = "Stressed"
               THEN AppendBoth(heap, diagnosis,
                               StressIssue(args.health_confidence), StressRec)
               ELSE heap
    /\ pc' = "rule3_weed"
    /\ UNCHANGED <<args, avg_vi, counts, rules, memo>>
    /\ UNCHANGED pipelineVars

CountAny(dets, category) == Len(dets)

\* sum(1 for d in detections if d['category'] == category)
CountCategory(dets, category) ==
    Cardinality({i \in 1..Len(dets) : dets[i].category = category})

Rule3WeedInsertsFirst ==
    /\ pc = "rule3_weed"
    /\ counts' = [weed |-> CountCategory(args.detections, "weed"),
                  pest |-> CountCategory(args.detections, "pest")]
    /\ heap' = IF counts'.weed > 0
               THEN [heap EXCEPT
                       ![diagnosis.issues] = <<WeedIssue(counts'.weed)>> \o @,
                       ![diagnosis.recommendations] = <<WeedRec>> \o @]
               ELSE heap
    /\ pc' = "rule3_pest"
    /\ UNCHANGED <<args, avg_vi, diagnosis, rules, memo>>
    /\ UNCHANGED pipelineVars

\* Rule 3: the two counts and the weed branch
Rule3Weed ==
    /\ pc = "rule3_weed"
    /\ counts' = [weed |-> CountCategory(args.detections, "weed"),
                  pest |-> CountCategory(args.detections, "pest")]
    /\ heap' = IF counts'.weed > 0
               THEN AppendBoth(heap, diagnosis, WeedIssue(counts'.weed), WeedRec) ELSE heap
    /\ pc' = "rule3_pest"
    /\ UNCHANGED <<args, avg_vi, diagnosis, rules, memo>>
    /\ UNCHANGED pipelineVars

Rule3PestIssueOnly ==
    /\ pc = "rule3_pest"
    /\ heap' = IF counts.pest > 0
               THEN Append_(heap, diagnosis.issues, PestIssue(counts.pest)) ELSE heap
    /\ pc' = "rule4"
    /\ UNCHANGED <<args, avg_vi, counts, diagnosis, rules, memo>>
    /\ UNCHANGED pipelineVars

\* Rule 3: the pest branch
Rule3Pest ==
    /\ pc = "rule3_pest"
    /\ heap' = IF counts.pest > 0
               THEN AppendBoth(heap, diagnosis, PestIssue(counts.pest), PestRec) ELSE heap
    /\ pc' = "rule4"
    /\ UNCHANGED <<args, avg_vi, counts, diagnosis, rules, memo>>
    /\ UNCHANGED pipelineVars

Rule4ReplacesEarlier ==
    /\ pc = "rule4"
    /\ heap' = IF LowVegetation(avg_vi) /\ args.health_status = "Diseased"
               THEN [heap EXCEPT ![diagnosis.issues] = <<CriticalIssue>>,
                                 ![diagnosis.recommendations] = <<CriticalRec>>]
               ELSE heap
    /\ pc' = "default"
    /\ UNCHANGED <<args, avg_vi, counts, diagnosis, rules, memo>>
    /\ UNCHANGED pipelineVars

\* Rule 4: combined decision
Rule4 ==
    /\ pc = "rule4"
    /\ heap' = IF LowVegetation(avg_vi) /\ args.health_status = "Diseased"
               THEN AppendBoth(heap, diagnosis, CriticalIssue, CriticalRec) ELSE heap
    /\ pc' = "default"
    /\ UNCHANGED <<args, avg_vi, counts, diagnosis, rules, memo>>
    /\ UNCHANGED pipelineVars

DefaultRuleSkipped ==
    /\ pc = "default"
    /\ heap' = heap
    /\ pc' = "done"
    /\ UNCHANGED <<args, avg_vi, counts, diagnosis, rules, memo>>
    /\ UNCHANGED pipelineVars

DefaultRuleAlways ==
    /\ pc = "default"
    /\ heap' = Append_(heap, diagnosis.recommendations, DefaultRec)
    /\ pc' = "done"
    /\ UNCHANGED <<args, avg_vi, counts, diagnosis, rules, memo>>
    /\ UNCHANGED pipelineVars

\* Default recommendations, and return diagnosis
DefaultRule ==
    /\ pc = "default"
    /\ heap' = IF heap[diagnosis.recommendations] = <<>>
               THEN Append_(heap, diagnosis.recommendations, DefaultRec) ELSE heap
    /\ pc' = "done"
    /\ UNCHANGED <<args, avg_vi, counts, diagnosis, rules, memo>>
    /\ UNCHANGED pipelineVars


----------------------------------------------------------------------------
(* The collaborators of AgriDroneAnalyzer *)

\* model.config.id2label entries: <<crop, "___", disease>>, or one name
Id2Label == {<<"Tomato", "___", "Leaf_Blight">>, <<"Corn", "___", "healthy">>, <<"Leaf_Blight">>}

\* str.replace('_', ' ') on the names above
ReplaceUnderscore(name) == IF name = "Leaf_Blight" THEN "Leaf Blight" ELSE name

\* 'healthy' in disease_name.lower()
HasHealthy(name) == name = "healthy"

\* HealthClassificationModel.classify_health on the top label and its probability
ClassifyHealth(disease_full, confidence) ==
    LET split == Len(disease_full) = 3 /\ disease_full[2] = "___"
        crop_type == IF split THEN ReplaceUnderscore(disease_full[1]) ELSE "Unknown"
        disease_name == IF split THEN ReplaceUnderscore(disease_full[3])
                        ELSE ReplaceUnderscore(disease_full[1])
        status == IF HasHealthy(disease_name) THEN "Healthy" ELSE "Diseased"
    IN  [status |-> status, confidence |-> confidence,
         disease_name |-> disease_name, crop_type |-> crop_type]

LowerChar(ch) == CASE ch = "B" -> "b" [] ch = "P" -> "p" [] OTHER -> ch

\* str.lower()
Lower(label) == [i \in DOMAIN label |-> LowerChar(label[i])]

WeedKeywords == {<<"p", "l", "a", "n", "t">>, PottedPlant}
PestKeywords == {Bird, <<"i", "n", "s", "e", "c", "t">>, <<"b", "e", "e">>}

CategorizePestFirst(label) ==
    LET label_lower == Lower(label)
    IN  IF \E kw \in PestKeywords : Contains(label_lower, kw) THEN "pest"
        ELSE IF \E kw \in WeedKeywords : Contains(label_lower, kw) THEN "weed"
        ELSE "none"

\* WeedPestDetector._categorize_detection; "none" is Python's None
CategorizeDetection(label) ==
    LET label_lower == Lower(label)
    IN  IF \E kw \in WeedKeywords : Contains(label_lower, kw) THEN "weed"
        ELSE IF \E kw \in PestKeywords : Contains(label_lower, kw) THEN "pest"
        ELSE "none"

\* the loop of WeedPestDetector.detect over the boxes, in order
RECURSIVE CollectDetections(_)
CollectDetections(labels) ==
    IF labels = <<>> THEN <<>>
    ELSE LET category == CategorizeDetection(Head(labels))
             rest == CollectDetections(Tail(labels))
         IN  IF category # "none" THEN <<Detection(Head(labels), category)>> \o rest
             ELSE rest

NoLocals ==
    [health |-> [status |-> "Unknown", confidence |-> 0,
                 disease_name |-> "Unknown", crop_type |-> "Unknown"],
     results |-> <<>>, detections |-> <<>>, det_status |-> "", exg_index |-> <<>>,
     failures |-> {}]

\* AgriDroneAnalyzer.__init__: the collaborators are built in order; a
\* classifier whose download fails re-raises, a detector that is not
\* installed or does not load is marked unavailable
AnalyzerInit ==
    /\ apc = "start"
    /\ pc = "idle"
    /\ \E hfLoads \in BOOLEAN, yoloImported \in BOOLEAN, yoloLoads \in BOOLEAN :
        /\ apc' = IF hfLoads THEN "ready" ELSE "init_raised"
        /\ available' = (hfLoads /\ yoloImported /\ yoloLoads)
        /\ an' = [NoLocals EXCEPT !.failures =
                    (IF hfLoads THEN {} ELSE {"classifier_load"})
                    \cup (IF hfLoads /\ ~(yoloImported /\ yoloLoads)
                          THEN {"detector_missing"} ELSE {})]
    /\ UNCHANGED fusionVars

\* analyze steps 1-2: load_image, preprocess, segment.  cv2.imread gives
\* None for a file it cannot decode and cv2.cvtColor(None, ...) raises.
LoadImage ==
    /\ apc \in {"ready", "analyze_raised"}
    /\ pc = "idle"
    /\ \E decodable \in BOOLEAN :
        /\ apc' = IF decodable THEN "classify" ELSE "analyze_raised"
        /\ an' = [NoLocals EXCEPT !.failures =
                    (IF available THEN {} ELSE {"detector_missing"})
                    \cup (IF decodable THEN {} ELSE {"image_decode"})]
    /\ UNCHANGED <<available>>
    /\ UNCHANGED fusionVars

\* analyze step 3
Classify ==
    /\ apc = "classify"
    /\ \E disease_full \in Id2Label, confidence \in ConfidenceValues :
        an' = [an EXCEPT !.health = ClassifyHealth(disease_full, confidence)]
    /\ apc' = "detect"
    /\ UNCHANGED <<available>>
    /\ UNCHANGED fusionVars

\* analyze step 4: WeedPestDetector.detect up to the model's results (the
\* labels of the boxes, in order); an unavailable detector and a raised
\* exception both return the empty list at once
Detect ==
    /\ apc = "detect"
    /\ IF ~available
       THEN /\ an' = [an EXCEPT !.detections = <<>>, !.det_status = "YOLOv8 not available"]
            /\ apc' = "vegetation"
       ELSE \E raises \in BOOLEAN, labels \in SeqsUpTo(YoloNames, MaxDetections) :
            IF raises
            THEN /\ an' = [an EXCEPT !.detections = <<>>, !.det_status = "Detection failed",
                                     !.failures = @ \cup {"detector_failed"}]
                 /\ apc' = "vegetation"
            ELSE /\ an' = [an EXCEPT !.results = labels]
                 /\ apc' = "collect"
    /\ UNCHANGED <<available>>
    /\ UNCHANGED fusionVars

\* analyze step 4, continued: the loop over the boxes and the return of
\* detect with "Success"
Collect ==
    /\ apc = "collect"
    /\ an' = [an EXCEPT !.detections = CollectDetections(an.results),
                        !.det_status = "Success", !.results = <<>>]
    /\ apc' = "vegetation"
    /\ UNCHANGED <<available>>
    /\ UNCHANGED fusionVars

\* analyze step 5: excess_green_index of the resized (non-empty) image
VegetationIndex ==
    /\ apc = "vegetation"
    /\ \E exg \in SeqsUpTo(PixelValues, MaxPixels) \ {<<>>} :
        an' = [an EXCEPT !.exg_index = exg]
    /\ apc' = "fuse"
    /\ UNCHANGED <<available>>
    /\ UNCHANGED fusionVars

\* analyze step 6: the call of fusion_engine.fuse_results
AnalyzeFuse ==
    /\ apc = "fuse"
    /\ Enter(FuseArgs(an.exg_index, an.health.status, an.health.confidence,
                      an.detections, an.health.disease_name, an.health.crop_type))
    /\ apc' = "fusing"
    /\ UNCHANGED <<available, an>>

\* analyze returns its results dict; the model keeps nothing of it
AnalyzeReturn ==
    /\ apc = "fusing"
    /\ pc = "done"
    /\ apc' = "ready"
    /\ an' = NoLocals
    /\ pc' = "idle"
    /\ args' = NoArgs
    /\ avg_vi' = NoAvg
    /\ counts' = NoCounts
    /\ diagnosis' = NoDiagnosis
    /\ heap' = [i \in {rules[k] : k \in RuleKeys} |-> heap[i]]
    /\ UNCHANGED <<available, rules, memo>>

----------------------------------------------------------------------------
(* Callers of fuse_results outside the analyzer *)

\* a direct call fuse_results(mask, status, confidence, detections, vi, ...)
\* on a newly built FusionEngine
DirectCall ==
    /\ apc = "start"
    /\ pc = "idle"
    /\ \E a \in AllArgs : Enter(a)
    /\ UNCHANGED pipelineVars

\* a direct call by the caller that keeps results
RepeatCall ==
    /\ apc = "start"
    /\ \E a \in RepeatArgs : Enter(a)
    /\ UNCHANGED pipelineVars

\* the caller keeps the returned diagnosis (and what it passed) for later
Keep ==
    /\ apc = "start"
    /\ pc = "done"
    /\ memo = {}
    /\ memo' = {[args |-> args, diagnosis |-> diagnosis]}
    /\ UNCHANGED <<pc, args, avg_vi, counts, diagnosis, heap, rules>>
    /\ UNCHANGED pipelineVars

----------------------------------------------------------------------------
(* Specifications *)

Init ==
    /\ pc = "idle"
    /\ args = NoArgs
    /\ avg_vi = NoAvg
    /\ counts = NoCounts
    /\ diagnosis = NoDiagnosis
    /\ rules = InitRules
    /\ heap = InitHeap
    /\ memo = {}
    /\ apc = "start"
    /\ available = FALSE
    /\ an = NoLocals

Next ==
    \/ DirectCall
    \/ Rule1
    \/ Rule2
    \/ Rule3Weed
    \/ Rule3Pest
    \/ Rule4
    \/ DefaultRule
    \/ AnalyzerInit
    \/ LoadImage
    \/ Classify
    \/ Detect
    \/ Collect
    \/ VegetationIndex
    \/ AnalyzeFuse
    \/ AnalyzeReturn

Spec == Init /\ [][Next]_vars

\* a caller that calls the same engine repeatedly and keeps an earlier result
NextCalls ==
    \/ RepeatCall
    \/ Rule1
    \/ Rule2
    \/ Rule3Weed
    \/ Rule3Pest
    \/ Rule4
    \/ DefaultRule
    \/ Keep

SpecCalls == Init /\ [][NextCalls]_vars

----------------------------------------------------------------------------
(* Reading the inputs and the returned texts, for the properties below *)

Range(s) == {s[i] : i \in DOMAIN s}

\* the mean of the pixels (each v/10) is below 3/10
MeanBelow03(pixels) == Len(pixels) > 0 /\ SumSeq(pixels) < 3 * Len(pixels)

RECURSIVE CountOf(_, _)
CountOf(dets, category) ==
    IF dets = <<>> THEN 0
    ELSE (IF Head(dets).category = category THEN 1 ELSE 0) + CountOf(Tail(dets), category)

DigitValue(ch) == CHOOSE d \in 0..9 : DigitChars[d + 1] = ch

\* the number a run of digit characters spells
RECURSIVE ParseDigits(_)
ParseDigits(chars) ==
    IF chars = <<>> THEN 0
    ELSE 10 * ParseDigits(SubSeq(chars, 1, Len(chars) - 1)) + DigitValue(chars[Len(chars)])

IndexOf(text, tok) == CHOOSE i \in DOMAIN text : text[i] = tok /\ \A j \in 1..(i - 1) : text[j] # tok

IsDiseaseIssue(e) == e[1] = "Disease detected: "
IsStressIssue(e) == e[1] = "Crop stress detected (confidence: "
IsHealthIssue(e) == IsDiseaseIssue(e) \/ IsStressIssue(e)
IsWeedIssue(e) == e[Len(e)] = " potential weed(s) detected"
IsPestIssue(e) == e[Len(e)] = " potential pest(s) detected"
IsDiseaseRec(e) == e[1] = "Apply appropriate treatment for "

\* the digit characters around the point of the percentage in a health issue
IntegerDigits(e) == SubSeq(e, IF IsDiseaseIssue(e) THEN 4 ELSE 2, IndexOf(e, ".") - 1)
FractionDigits(e) == SubSeq(e, IndexOf(e, ".") + 1, IndexOf(e, "%") - 1)

Returned == pc = "done"

Low == MeanBelow03(args.vegetation_index)
Diseased == args.health_status = "Diseased"
Stressed == args.health_status = "Stressed"
Weeds == CountOf(args.detections, "weed")
Pests == CountOf(args.detections, "pest")

----------------------------------------------------------------------------
(* Properties *)

\* C1: whatever the inputs, the diagnosis fuse_results returns has a
\* non-empty 'recommendations' list.
C1_RecommendationsNonEmpty == Returned => Recommendations # <<>>

\* a pass in which no rule had anything to say (nan mean, Unknown, no detections)
C1_Witness ==
    /\ Returned
    /\ args.vegetation_index = <<>>
    /\ args.health_status = "Unknown"
    /\ args.detections = <<>>
    /\ Len(Recommendations) = 1

\* C2: the default recommendation is in the returned list exactly when none
\* of rules 1-4 appended one; for a mean >= 0.3, status Healthy and no
\* detections, 'issues' is empty and 'recommendations' is the one default entry.
C2_DefaultIffNoRuleFired ==
    Returned =>
        /\ (DefaultRec \in Range(Recommendations))
            <=> ~(Low \/ Diseased \/ Stressed \/ Weeds > 0 \/ Pests > 0)
        /\ (DefaultRec \in Range(Recommendations)) => Recommendations = <<DefaultRec>>
        /\ (args.vegetation_index # <<>> /\ ~Low /\ args.health_status = "Healthy"
                /\ args.detections = <<>>)
            => (Issues = <<>> /\ Recommendations = <<DefaultRec>>)

\* mean 0.4, Healthy, no detections
C2_Witness ==
    /\ Returned
    /\ args.vegetation_index = <<4, 4>>
    /\ args.health_status = "Healthy"
    /\ args.detections = <<>>
    /\ Issues = <<>>
    /\ Recommendations = <<DefaultRec>>

\* C3 (as claimed): the confidence is rendered with exactly one decimal
\* digit: for Diseased, 0.9, "Leaf Blight" the disease issue contains
\* "Leaf Blight" and "90.0%".
C3_OneDecimalDigit ==
    (Returned /\ Diseased /\ args.health_confidence = 900
        /\ args.disease_name = "Leaf Blight")
    => \E e \in Range(Issues) :
            /\ Contains(e, <<"Leaf Blight">>)
            /\ Contains(e, <<"9", "0", ".", "0", "%">>)

\* C3 (amended): wherever fuse_results embeds the confidence (the disease
\* issue and the stress issue) it is the percentage with exactly two decimal
\* digits: for Diseased, 0.9, "Leaf Blight" the disease issue contains
\* "Leaf Blight" and "90.00%".
C3_TwoDecimalDigits ==
    Returned =>
        /\ \A e \in Range(Issues) : IsHealthIssue(e) =>
            /\ Len(FractionDigits(e)) = 2
            /\ e[IndexOf(e, "%") + 1] = ")"
            /\ 100 * ParseDigits(IntegerDigits(e)) + ParseDigits(FractionDigits(e))
                    = 10 * args.health_confidence
        /\ (Diseased \/ Stressed) => \E e \in Range(Issues) : IsHealthIssue(e)
        /\ (Diseased /\ args.health_confidence = 900 /\ args.disease_name = "Leaf Blight")
            => \E e \in Range(Issues) :
                    /\ Contains(e, <<"Leaf Blight">>)
                    /\ Contains(e, <<"9", "0", ".", "0", "0", "%">>)

C3_Witness ==
    /\ Returned
    /\ Diseased
    /\ args.health_confidence = 900
    /\ args.disease_name = "Leaf Blight"
    /\ \E e \in Range(Issues) : IsDiseaseIssue(e) /\ Contains(e, <<"Leaf Blight">>)

\* C4: the low-vegetation-index issue and its inspection recommendation are
\* in the result exactly when the mean index is strictly below 0.3; a mean
\* of exactly 0.3 does not trigger the rule.
C4_LowVegetationIffBelowThreshold ==
    Returned =>
        /\ (LowVIIssue \in Range(Issues)) <=> Low
        /\ (LowVIRec \in Range(Recommendations)) <=> Low

\* pixels 0.2 and 0.4: the mean is exactly 0.3 and the rule stays silent
C4_Witness ==
    /\ Returned
    /\ args.vegetation_index = <<2, 4>>
    /\ LowVIIssue \notin Range(Issues)
    /\ LowVIRec \notin Range(Recommendations)

\* C5: the CRITICAL issue and the immediate-intervention recommendation are
\* in the result exactly when the mean index is below 0.3 and the status is
\* Diseased; with them the low-vegetation-index issue and the disease issue
\* are still there, so 'issues' has at least three entries.
C5_CriticalIffLowAndDiseased ==
    Returned =>
        /\ (CriticalIssue \in Range(Issues)) <=> (Low /\ Diseased)
        /\ (CriticalRec \in Range(Recommendations)) <=> (Low /\ Diseased)
        /\ (CriticalIssue \in Range(Issues)) =>
            /\ LowVIIssue \in Range(Issues)
            /\ \E e \in Range(Issues) : IsDiseaseIssue(e)
            /\ LowVIRec \in Range(Recommendations)
            /\ \E e \in Range(Recommendations) : IsDiseaseRec(e)
            /\ Len(Issues) >= 3

C5_Witness ==
    /\ Returned
    /\ Low
    /\ Diseased
    /\ args.detections = <<>>
    /\ Len(Issues) = 3
    /\ Issues[3] = CriticalIssue

\* C6: a weed issue (with its recommendation) is reported iff some detection
\* has category weed, a pest issue (with its recommendation) iff some
\* detection has category pest, and the number in each text is the count of
\* detections of exactly that category.
C6_WeedAndPestCountsIndependent ==
    Returned =>
        /\ (\E e \in Range(Issues) : IsWeedIssue(e)) <=> Weeds > 0
        /\ (\E e \in Range(Issues) : IsPestIssue(e)) <=> Pests > 0
        /\ (WeedRec \in Range(Recommendations)) <=> Weeds > 0
        /\ (PestRec \in Range(Recommendations)) <=> Pests > 0
        /\ \A e \in Range(Issues) :
            /\ IsWeedIssue(e) => ParseDigits(SubSeq(e, 1, Len(e) - 1)) = Weeds
            /\ IsPestIssue(e) => ParseDigits(SubSeq(e, 1, Len(e) - 1)) = Pests

\* two weeds and one pest report "2" and "1"
C6_Witness ==
    /\ Returned
    /\ Weeds = 2
    /\ Pests = 1
    /\ <<"2", " potential weed(s) detected">> \in Range(Issues)
    /\ <<"1", " potential pest(s) detected">> \in Range(Issues)

\* C7: the health rule copies status and confidence unchanged into
\* 'overall_health' and 'confidence', and appends exactly one issue and one
\* recommendation for Diseased, exactly one of each for Stressed, and
\* nothing for Healthy or Unknown.
C7_HealthRule ==
    [][/\ pc = "rule2" =>
            /\ diagnosis'.overall_health = args.health_status
            /\ diagnosis'.confidence = args.health_confidence
            /\ Diseased =>
                /\ Len(Issues') = Len(Issues) + 1
                /\ IsDiseaseIssue(Issues'[Len(Issues')])
                /\ Recommendations' = Append(Recommendations, DiseaseRec(args.disease_name))
            /\ Stressed =>
                /\ Len(Issues') = Len(Issues) + 1
                /\ IsStressIssue(Issues'[Len(Issues')])
                /\ Recommendations' = Append(Recommendations, StressRec)
            /\ ~(Diseased \/ Stressed) =>
                /\ Issues' = Issues
                /\ Recommendations' = Recommendations
       /\ pc' = "done" =>
            /\ diagnosis'.overall_health = args'.health_status
            /\ diagnosis'.confidence = args'.health_confidence
            /\ Cardinality({i \in DOMAIN Issues' : IsHealthIssue(Issues'[i])})
                    = IF args'.health_status \in {"Diseased", "Stressed"} THEN 1 ELSE 0
      ]_vars

\* a Stressed result: status and confidence copied, one stress issue
C7_Witness ==
    /\ Returned
    /\ Stressed
    /\ diagnosis.overall_health = "Stressed"
    /\ diagnosis.confidence = args.health_confidence
    /\ \E e \in Range(Issues) : IsStressIssue(e)

\* the diagnosis dict d with its lists read out of heap h
DerefIn(h, d) == [d EXCEPT !.issues = h[d.issues], !.recommendations = h[d.recommendations]]

Running == pc \notin {"idle", "done"}

\* C8: on one FusionEngine, a call's diagnosis depends only on that call's
\* inputs: a call with the inputs of an earlier, kept call returns an equal
\* diagnosis; no step changes self.rules or the arguments passed in; the
\* lists of a running call are not those of a kept result nor the engine's,
\* and a kept result never changes while later calls run.
C8_CallsIndependent ==
    [][/\ rules' = rules
       /\ [k \in RuleKeys |-> heap'[rules'[k]]] = SelfRules
       /\ Running => args' = args
       /\ \A m \in memo :
            /\ m \in memo'
            /\ DerefIn(heap', m.diagnosis) = DerefIn(heap, m.diagnosis)
       /\ pc' \notin {"idle", "done"} =>
            /\ diagnosis'.issues # diagnosis'.recommendations
            /\ ListsOf(diagnosis') \cap {rules'[k] : k \in RuleKeys} = {}
            /\ \A m \in memo' : ListsOf(diagnosis') \cap ListsOf(m.diagnosis) = {}
       /\ pc' = "done" =>
            \A m \in memo' : m.args = args' =>
                DerefIn(heap', m.diagnosis) = DerefIn(heap', diagnosis')
      ]_vars

\* a later call with the inputs of a kept call has returned: equal texts in
\* other lists
C8_Witness ==
    /\ Returned
    /\ \E m \in memo :
        /\ m.args = args
        /\ ListsOf(m.diagnosis) \cap ListsOf(diagnosis) = {}
        /\ Len(heap[m.diagnosis.issues]) >= 2
        /\ heap[m.diagnosis.issues] = Issues

\* C9 (as claimed): an upstream failure (classifier load, missing or
\* failing detector, undecodable image) never leaves the pipeline as an
\* exception; fuse_results is reached with the neutral defaults instead.
C9_UpstreamFailuresDegrade ==
    an.failures # {} =>
        /\ apc \notin {"init_raised", "analyze_raised"}
        /\ (apc = "fusing" /\ an.failures \cap {"detector_missing", "detector_failed"} # {})
            => args.detections = <<>>

IssueRank(e) ==
    CASE e = LowVIIssue -> 1
      [] IsHealthIssue(e) -> 2
      [] IsWeedIssue(e) -> 3
      [] IsPestIssue(e) -> 4
      [] e = CriticalIssue -> 5
      [] OTHER -> 0

RecRank(e) ==
    CASE e = LowVIRec -> 1
      [] IsDiseaseRec(e) \/ e = StressRec -> 2
      [] e = WeedRec -> 3
      [] e = PestRec -> 4
      [] e = CriticalRec -> 5
      [] e = DefaultRec -> 6
      [] OTHER -> 0

Increasing(ranks) == \A i \in 1..(Len(ranks) - 1) : ranks[i] < ranks[i + 1]

PcAfter ==
    [p \in {"rule1", "rule2", "rule3_weed", "rule3_pest", "rule4", "default"} |->
        CASE p = "rule1" -> "rule2"
          [] p = "rule2" -> "rule3_weed"
          [] p = "rule3_weed" -> "rule3_pest"
          [] p = "rule3_pest" -> "rule4"
          [] p = "rule4" -> "default"
          [] OTHER -> "done"]

\* C10: in one pass the rules run in the order vegetation-stress,
\* health-status, weed, pest, compound-critical, default; every step only
\* appends to 'issues' and 'recommendations' of the same two lists; so the
\* returned issues are in the relative order low-vegetation-index,
\* disease-or-stress, weed, pest, CRITICAL, and the paired recommendations
\* in the same order.
C10_FixedOrderAppendOnly ==
    [][/\ Running =>
            /\ pc' = PcAfter[pc]
            /\ diagnosis'.issues = diagnosis.issues
            /\ diagnosis'.recommendations = diagnosis.recommendations
            /\ IsPrefix(Issues, Issues')
            /\ IsPrefix(Recommendations, Recommendations')
       /\ pc' = "done" =>
            LET issueRanks == [i \in DOMAIN Issues' |-> IssueRank(Issues'[i])]
                recRanks == [i \in DOMAIN Recommendations' |-> RecRank(Recommendations'[i])]
            IN  /\ \A i \in DOMAIN issueRanks : issueRanks[i] # 0
                /\ Increasing(issueRanks)
                /\ Increasing(recRanks)
                /\ Issues' # <<>> => recRanks = issueRanks
      ]_vars

\* all five issues, in rule order
C10_Witness ==
    /\ Returned
    /\ Len(Issues) = 5
    /\ [i \in 1..5 |-> IssueRank(Issues[i])] = <<1, 2, 3, 4, 5>>
    /\ [i \in 1..5 |-> RecRank(Recommendations[i])] = <<1, 2, 3, 4, 5>>

Max(a, b) == IF a >= b THEN a ELSE b

\* C11: in every returned diagnosis the number of recommendations is
\* max(1, number of issues): while rules 1-4 run the two lists have equal
\* lengths (each rule appends one issue with one recommendation, or
\* nothing), and the default recommendation, the only one without an issue,
\* is there exactly when 'issues' is empty.
C11_RecommendationsMatchIssues ==
    /\ Running => Len(Recommendations) = Len(Issues)
    /\ Returned =>
        /\ Len(Recommendations) = Max(1, Len(Issues))
        /\ (DefaultRec \in Range(Recommendations)) <=> (Issues = <<>>)
        /\ Issues # <<>> =>
            \A i \in DOMAIN Issues : RecRank(Recommendations[i]) = IssueRank(Issues[i])

\* a pest-only result: one issue, one recommendation, no default
C11_Witness ==
    /\ Returned
    /\ Weeds = 0
    /\ Pests = 3
    /\ Len(Issues) = 1
    /\ Recommendations = <<PestRec>>

\* some keyword of the set occurs in the lower-cased label
Matches(label, keywords) ==
    \E kw \in keywords : \E i \in 1..Len(label) : \E j \in i..Len(label) :
        [k \in 1..(j - i + 1) |-> LowerChar(label[i + k - 1])] = kw

MatchesAny(label) == Matches(label, WeedKeywords) \/ Matches(label, PestKeywords)

\* the labels that match some keyword, in their order
RECURSIVE MatchingLabels(_)
MatchingLabels(labels) ==
    IF labels = <<>> THEN <<>>
    ELSE (IF MatchesAny(Head(labels)) THEN <<Head(labels)>> ELSE <<>>)
            \o MatchingLabels(Tail(labels))

DetectorDown == an.failures \cap {"detector_missing", "detector_failed"} # {}

\* C12: every detection that detect returns has category 'weed' or 'pest':
\* the boxes whose label matches no keyword are dropped, the others are
\* kept in order, and a label matching a weed keyword (also one matching a
\* pest keyword as well) is 'weed'.  So during analyze the weed count plus
\* the pest count of fuse_results is the length of the detection list, and
\* with the detector unavailable or failed the list is empty and there is
\* no weed or pest issue.
C12_DetectionsAreWeedOrPest ==
    [][/\ apc = "collect" =>
            /\ [i \in DOMAIN an'.detections |-> an'.detections[i].label]
                    = MatchingLabels(an.results)
            /\ \A i \in DOMAIN an'.detections :
                LET d == an'.detections[i]
                IN  /\ d.category \in {"weed", "pest"}
                    /\ d.category = "weed" <=> Matches(d.label, WeedKeywords)
                    /\ d.category = "pest" =>
                            (Matches(d.label, PestKeywords) /\ ~Matches(d.label, WeedKeywords))
       /\ (apc' = "fusing" /\ pc' \in {"rule3_pest", "rule4", "default", "done"}) =>
            counts'.weed + counts'.pest = Len(an'.detections)
       /\ (apc' \in {"vegetation", "fuse", "fusing"} /\ DetectorDown') =>
            an'.detections = <<>>
       /\ (apc' = "fusing" /\ pc' = "done" /\ DetectorDown') =>
            \A e \in Range(Issues') : ~IsWeedIssue(e) /\ ~IsPestIssue(e)
      ]_vars

\* analyze has fused a list in which "Bee plant" was categorised weed
C12_Witness ==
    /\ apc = "fusing"
    /\ Returned
    /\ an.detections = <<Detection(BeePlant, "weed"), Detection(Bird, "pest")>>
    /\ counts = [weed |-> 1, pest |-> 1]

====
